---------------------------- MODULE Spec2Model ----------------------------
(***************************************************************************)
(* Request-handling pipeline of the catdex API (src/main.rs): the three    *)
(* handlers cats_endpoint, cat_endpoint and add_cat_endpoint running       *)
(* concurrently against one r2d2 connection pool, the cats table and the   *)
(* ./image upload directory.  Every handler is cut at its suspension       *)
(* points (pool.get, web::block) and at its filesystem write.              *)
(***************************************************************************)
EXTENDS Integers, Sequences, FiniteSets, TLC

\* ------------------------------------------------------------- bounds
\* Number of requests a behaviour issues (each slot is used once).
MaxReq == 2

\* Connections the pool holds.  setup_database keeps r2d2's default cap;
\* the model uses a small cap so that exhaustion is reached.
max_size == 1

\* ---------------------------------------------------- program constants
\* cats.limit(100)
LIST_LIMIT == 100

\* #[validate(range(min = 1, max = 150))]
RANGE_MIN == 1

RANGE_MAX == 150

\* id: i32
I32_MAX == 2147483647

Req == 1..MaxReq

Conns == 1..max_size

NoConn == 0

NoFile == "<none>"

\* ------------------------------------------------------------- inputs
\* Path segments a client may put in GET /api/cat/{id}, as characters.
PathSegments ==
    { <<"a", "b", "c">>, <<"0">>, <<"1">>, <<"1", "5", "0">>, <<"1", "5", "1">>,
      <<"2", "1", "4", "7", "4", "8", "3", "6", "4", "8">> }

\* Text parts of a multipart body, in the order received.
TextParts ==
    { <<[key |-> "color", value |-> "red"]>>,
      <<[key |-> "name", value |-> ""]>>,
      <<[key |-> "name", value |-> "Tom"]>>,
      <<[key |-> "name", value |-> "Tom"], [key |-> "name", value |-> "Kit"]>> }

\* File parts named "image" of a multipart body: their (sanitized) client
\* file names, in the order received.
ImageParts == { <<>>, <<"dog.png", "cat.png">> }

\* Rows the table may already hold when the server starts.
StoredAtStart == {0, LIST_LIMIT}

VARIABLES
    kind,        \* kind[r]: which endpoint request r was routed to
    input,       \* input[r]: path segment, text parts and image parts
    pc,          \* pc[r]: position of the handler of r
    connection,  \* connection[r]: the pooled connection r's handler owns
    response,    \* response[r]: what the client of r got
    body,        \* body[r]: rows serialised into the response
    hist,        \* hist[r]: what r did so far (history, not program state)
    file_path,   \* file_path[r]: local of add_cat_endpoint
    new_cat,     \* new_cat[r]: local of add_cat_endpoint, <<>> until built
    idle,        \* connections waiting in the pool
    stored,      \* rows the table held at startup, ids 1..stored
    rows,        \* rows inserted since startup, in insertion order
    image_dir    \* files of ./image written since startup

vars == <<kind, input, pc, connection, response, body, hist, file_path,
          new_cat, idle, stored, rows, image_dir>>

\* ------------------------------------------------------------- errors
UserErrors ==
    {"ValidationError", "DBPoolGetError", "NotFoundError", "UnexpectedError"}

\* errors.rs: ResponseError::status_code of UserError.
status_code(e) ==
    CASE e = "ValidationError" -> 400
      [] e = "NotFoundError" -> 404
      [] e = "DBPoolGetError" -> 500
      [] e = "UnexpectedError" -> 500

\* HTTP status the client of r observes; 0 when no response was produced.
Status(r) ==
    CASE response[r] = "Ok" -> 200
      [] response[r] = "Created" -> 201
      [] response[r] \in UserErrors -> status_code(response[r])
      [] OTHER -> 0

\* ------------------------------------------------------ pure helpers
Digits == {"0", "1", "2", "3", "4", "5", "6", "7", "8", "9"}

DigitVal(c) ==
    CASE c = "0" -> 0 [] c = "1" -> 1 [] c = "2" -> 2 [] c = "3" -> 3
      [] c = "4" -> 4 [] c = "5" -> 5 [] c = "6" -> 6 [] c = "7" -> 7
      [] c = "8" -> 8 [] c = "9" -> 9

\* i32::from_str accumulates digit by digit with checked_mul and
\* checked_add (checked_sub after a '-'); overflow is an Err.
RECURSIVE CheckedPositive(_, _)
CheckedPositive(s, acc) ==
    IF s = <<>> THEN [ok |-> TRUE, val |-> acc]
    ELSE LET d == DigitVal(Head(s))
         IN  IF acc > (I32_MAX - d) \div 10
             THEN [ok |-> FALSE, val |-> 0]
             ELSE CheckedPositive(Tail(s), 10 * acc + d)

RECURSIVE CheckedNegative(_, _)
CheckedNegative(s, acc) ==
    IF s = <<>> THEN [ok |-> TRUE, val |-> acc]
    ELSE LET d == DigitVal(Head(s))
             room == (I32_MAX - d) \div 10
                     + (IF (I32_MAX - d) % 10 = 9 THEN 1 ELSE 0)
         IN  IF 0 - acc > room
             THEN [ok |-> FALSE, val |-> 0]
             ELSE CheckedNegative(Tail(s), 10 * acc - d)

\* web::Path<CatEndpointPath>: the segment parsed as an i32.
ParseI32(s) ==
    LET neg == s # <<>> /\ s[1] = "-"
        signed == s # <<>> /\ s[1] \in {"-", "+"}
        ds == IF signed THEN Tail(s) ELSE s
    IN  IF ds = <<>> \/ \E i \in 1..Len(ds) : ds[i] \notin Digits
        THEN [ok |-> FALSE, val |-> 0]
        ELSE IF neg THEN CheckedNegative(ds, 0) ELSE CheckedPositive(ds, 0)

validate_lax(n) == n >= RANGE_MIN - 1 /\ n <= RANGE_MAX

\* CatEndpointPath::validate
validate(n) == n >= RANGE_MIN /\ n <= RANGE_MAX

\* parts.files.take("image").pop()
TakeImage(files) ==
    IF files = <<>> THEN NoFile ELSE files[Len(files)]

\* f.persist_in("./image"): the path the file is persisted at.
persist_in(name) == <<".", "/", "image", "/", name>>

\* parts.texts.as_pairs().into_iter().collect::<HashMap>().get(k): a
\* repeated key keeps the value inserted last.  <<>> stands for None.
text_fields_get(texts, k) ==
    LET hits == {i \in 1..Len(texts) : texts[i].key = k}
    IN  IF hits = {} THEN <<>>
        ELSE <<texts[CHOOSE i \in hits : \A j \in hits : i >= j].value>>

strip_prefix_none(path) == <<path>>

\* file_path.to_string_lossy().strip_prefix('.'): <<>> stands for None.
strip_prefix(path) ==
    IF path # <<>> /\ path[1] = "." THEN <<Tail(path)>> ELSE <<>>

\* ------------------------------------------------------------- state
NoInput == [segment |-> <<>>, texts |-> <<>>, files |-> <<>>]

NoBody == [lo |-> 1, hi |-> 0, rows |-> {}]

NoHist ==
    [ file |-> NoFile, conn |-> FALSE, queries |-> 0, cause |-> "none",
      timedOut |-> FALSE, insertTried |-> FALSE, seen |-> 0, row |-> 0 ]

Init ==
    /\ kind = [r \in Req |-> "none"]
    /\ input = [r \in Req |-> NoInput]
    /\ pc = [r \in Req |-> "idle"]
    /\ connection = [r \in Req |-> NoConn]
    /\ response = [r \in Req |-> "None"]
    /\ body = [r \in Req |-> NoBody]
    /\ hist = [r \in Req |-> NoHist]
    /\ file_path = [r \in Req |-> <<>>]
    /\ new_cat = [r \in Req |-> <<>>]
    /\ idle = Conns
    /\ stored \in StoredAtStart
    /\ rows = <<>>
    /\ image_dir = {}

\* ---------------------------------------------------------- the store
\* A row of the table at startup; only its id is modelled.
StoredRow(n) ==
    [id |-> n, name |-> "stored", image_path |-> <<"/", "image", "/", "stored">>]

RowIds == {rows[i].id : i \in 1..Len(rows)}

TableSize == stored + Len(rows)

\* cats.filter(id.eq(query_id)).first::<Cat>(): the rows matching n.
FirstById(n) ==
    IF n >= 1 /\ n <= stored THEN {StoredRow(n)}
    ELSE {rows[i] : i \in {j \in 1..Len(rows) : rows[j].id = n}}

\* cats.limit(100): how many rows load returns.
limit(n) == IF TableSize <= n THEN TableSize ELSE n

\* cats.limit(100).load::<Cat>(): the store fixes no order, so any
\* selection of that many rows may come back.  Stored rows are
\* interchangeable, so those returned are taken to be ids 1..k.
LoadResults ==
    { [lo |-> 1, hi |-> k, rows |-> {rows[i] : i \in S}] :
        <<k, S>> \in { p \in (0..stored) \X SUBSET (1..Len(rows)) :
                         p[1] + Cardinality(p[2]) = limit(LIST_LIMIT) } }

\* diesel::insert_into(cats).values(&new_cat): the id is the table's.
Inserted(cat) ==
    Append(rows, [id |-> TableSize + 1, name |-> cat.name,
                  image_path |-> cat.image_path])

\* ------------------------------------------------------ the file system
\* NamedTempFile::persist under persist_in: an existing file of that name
\* is replaced.  The bytes of an upload are identified by its request.
persist(name, r) ==
    {f \in image_dir : f.name # name} \cup {[name |-> name, bytes |-> r]}

\* ------------------------------------------------------------ the pool
released_leak(r) == idle

\* Drop of the PooledConnection owned by r: back to the pool.
released(r) ==
    IF connection[r] = NoConn THEN idle ELSE idle \cup {connection[r]}

Finish(r, resp, cause) ==
    /\ pc' = [pc EXCEPT ![r] = "done"]
    /\ response' = [response EXCEPT ![r] = resp]
    /\ hist' = [hist EXCEPT ![r].cause = cause,
                            ![r].timedOut = (cause = "pool_timeout")]

\* pool.get() returning Ok: the handler of r owns connection c.
PoolGetOk(r, c) ==
    /\ c \in idle
    /\ idle' = idle \ {c}
    /\ connection' = [connection EXCEPT ![r] = c]
    /\ pc' = [pc EXCEPT ![r] = "acquired"]
    /\ hist' = [hist EXCEPT ![r].conn = TRUE]

\* ---------------------------------------------------------- the router
\* Requests are numbered in the order the server accepts them.
Accepted(r) ==
    pc[r] = "idle" /\ (IF r = 1 THEN TRUE ELSE pc[r - 1] # "idle")

\* .route("/cats", web::get().to(cats_endpoint))
RouteCats(r) ==
    /\ Accepted(r)
    /\ kind' = [kind EXCEPT ![r] = "list"]
    /\ pc' = [pc EXCEPT ![r] = "start"]
    /\ UNCHANGED <<input, connection, response, body, hist, file_path,
                   new_cat, idle, stored, rows, image_dir>>

\* .route("/cat/{id}", web::get().to(cat_endpoint))
RouteCat(r) ==
    /\ Accepted(r)
    /\ \E seg \in PathSegments :
          input' = [input EXCEPT ![r] = [NoInput EXCEPT !.segment = seg]]
    /\ kind' = [kind EXCEPT ![r] = "get"]
    /\ pc' = [pc EXCEPT ![r] = "start"]
    /\ UNCHANGED <<connection, response, body, hist, file_path, new_cat,
                   idle, stored, rows, image_dir>>

\* .route("/add_cat", web::post().to(add_cat_endpoint))
RouteAddCat(r) ==
    /\ Accepted(r)
    /\ \E texts \in TextParts, files \in ImageParts :
          input' = [input EXCEPT
                      ![r] = [NoInput EXCEPT !.texts = texts, !.files = files]]
    /\ kind' = [kind EXCEPT ![r] = "create"]
    /\ pc' = [pc EXCEPT ![r] = "start"]
    /\ UNCHANGED <<connection, response, body, hist, file_path, new_cat,
                   idle, stored, rows, image_dir>>

\* ------------------------------------------------------- cats_endpoint
\* let mut connection = pool.get().expect(..): a connection is idle.
cats_pool_get(r) ==
    /\ kind[r] = "list" /\ pc[r] = "start"
    /\ \E c \in idle : PoolGetOk(r, c)
    /\ UNCHANGED <<kind, input, response, body, file_path, new_cat, stored,
                   rows, image_dir>>

\* pool.get() gives Err once the 5 s wait is over with every connection
\* still out; expect() then panics and the handler produces no response.
cats_pool_get_err(r) ==
    /\ kind[r] = "list" /\ pc[r] = "start"
    /\ idle = {}
    /\ Finish(r, "Panic", "pool_timeout")
    /\ UNCHANGED <<kind, input, connection, body, file_path, new_cat, idle,
                   stored, rows, image_dir>>

\* web::block(move || cats.limit(100).load::<Cat>(&mut connection)).await
\* and the two map_err; the closure owns the connection and drops it.
cats_load(r) ==
    /\ kind[r] = "list" /\ pc[r] = "acquired"
    /\ idle' = released(r)
    /\ connection' = [connection EXCEPT ![r] = NoConn]
    /\ pc' = [pc EXCEPT ![r] = "done"]
    /\ \E res \in {"blocking_error", "db_error", "ok"} :
          IF res = "blocking_error"
          THEN /\ response' = [response EXCEPT ![r] = "UnexpectedError"]
               /\ hist' = [hist EXCEPT ![r].cause = res]
               /\ body' = body
          ELSE IF res = "db_error"
          THEN /\ response' = [response EXCEPT ![r] = "DBPoolGetError"]
               /\ hist' = [hist EXCEPT ![r].cause = res, ![r].queries = @ + 1]
               /\ body' = body
          ELSE /\ response' = [response EXCEPT ![r] = "Ok"]
               /\ hist' = [hist EXCEPT ![r].queries = @ + 1,
                                       ![r].seen = Len(rows)]
               /\ \E b \in LoadResults : body' = [body EXCEPT ![r] = b]
    /\ UNCHANGED <<kind, input, file_path, new_cat, stored, rows, image_dir>>

\* -------------------------------------------------------- cat_endpoint
\* The id the handler works with: web::Path's extraction of the segment.
cat_id(r) == ParseI32(input[r].segment)

\* web::Path extraction (PathConfig's error_handler on failure), then
\* cat_id.validate().map_err(..)?
cat_validate(r) ==
    /\ kind[r] = "get" /\ pc[r] = "start"
    /\ IF cat_id(r).ok /\ validate(cat_id(r).val)
       THEN /\ pc' = [pc EXCEPT ![r] = "validated"]
            /\ UNCHANGED <<response, hist>>
       ELSE Finish(r, "ValidationError",
                   IF cat_id(r).ok THEN "range" ELSE "path")
    /\ UNCHANGED <<kind, input, connection, body, file_path, new_cat, idle,
                   stored, rows, image_dir>>

\* let mut connection = pool.get().map_err(..)?: a connection is idle.
cat_pool_get(r) ==
    /\ kind[r] = "get" /\ pc[r] = "validated"
    /\ \E c \in idle : PoolGetOk(r, c)
    /\ UNCHANGED <<kind, input, response, body, file_path, new_cat, stored,
                   rows, image_dir>>

\* pool.get() gives Err after the wait: UserError::DBPoolGetError.
cat_pool_get_err(r) ==
    /\ kind[r] = "get" /\ pc[r] = "validated"
    /\ idle = {}
    /\ Finish(r, "DBPoolGetError", "pool_timeout")
    /\ UNCHANGED <<kind, input, connection, body, file_path, new_cat, idle,
                   stored, rows, image_dir>>

\* web::block(move || cats.filter(id.eq(query_id)).first::<Cat>(..)).await
\* and the two map_err.
cat_first(r) ==
    /\ kind[r] = "get" /\ pc[r] = "acquired"
    /\ idle' = released(r)
    /\ connection' = [connection EXCEPT ![r] = NoConn]
    /\ pc' = [pc EXCEPT ![r] = "done"]
    /\ \E res \in {"blocking_error", "db_error", "ok"} :
          IF res = "blocking_error"
          THEN /\ response' = [response EXCEPT ![r] = "UnexpectedError"]
               /\ hist' = [hist EXCEPT ![r].cause = res]
               /\ body' = body
          ELSE IF res = "db_error"
          THEN /\ response' = [response EXCEPT ![r] = "UnexpectedError"]
               /\ hist' = [hist EXCEPT ![r].cause = res, ![r].queries = @ + 1]
               /\ body' = body
          ELSE /\ hist' = [hist EXCEPT
                             ![r].queries = @ + 1,
                             ![r].seen = Len(rows),
                             ![r].cause = IF FirstById(cat_id(r).val) = {}
                                          THEN "not_found" ELSE "none"]
               /\ IF FirstById(cat_id(r).val) = {}
                  THEN /\ response' = [response EXCEPT ![r] = "NotFoundError"]
                       /\ body' = body
                  ELSE /\ response' = [response EXCEPT ![r] = "Ok"]
                       /\ body' = [body EXCEPT
                                     ![r] = [NoBody EXCEPT
                                               !.rows = FirstById(cat_id(r).val)]]
    /\ UNCHANGED <<kind, input, file_path, new_cat, stored, rows, image_dir>>

\* ---------------------------------------------------- add_cat_endpoint
add_cat_persist_unchecked(r) ==
    /\ kind[r] = "create" /\ pc[r] = "start"
    /\ LET f == TakeImage(input[r].files)
       IN  \E ok \in BOOLEAN :
             IF f # NoFile
             THEN /\ image_dir' = IF ok THEN persist(f, r) ELSE image_dir
                  /\ file_path' = [file_path EXCEPT ![r] = persist_in(f)]
                  /\ pc' = [pc EXCEPT ![r] = "persisted"]
                  /\ hist' = [hist EXCEPT ![r].file = IF ok THEN f ELSE NoFile]
                  /\ UNCHANGED response
             ELSE /\ Finish(r, "ValidationError", "no_image")
                  /\ UNCHANGED <<image_dir, file_path>>
    /\ UNCHANGED <<kind, input, connection, body, new_cat, idle, stored, rows>>

\* parts.files.take("image").pop().and_then(|f| f.persist_in("./image")
\* .ok()).ok_or_else(..)?: no image part, or a persist that fails, ends
\* the request with UserError::ValidationError.
add_cat_persist(r) ==
    /\ kind[r] = "create" /\ pc[r] = "start"
    /\ LET f == TakeImage(input[r].files)
       IN  \E ok \in BOOLEAN :
             IF f # NoFile /\ ok
             THEN /\ image_dir' = persist(f, r)
                  /\ file_path' = [file_path EXCEPT ![r] = persist_in(f)]
                  /\ pc' = [pc EXCEPT ![r] = "persisted"]
                  /\ hist' = [hist EXCEPT ![r].file = f]
                  /\ UNCHANGED response
             ELSE /\ Finish(r, "ValidationError",
                            IF f = NoFile THEN "no_image" ELSE "persist_failed")
                  /\ UNCHANGED <<image_dir, file_path>>
    /\ UNCHANGED <<kind, input, connection, body, new_cat, idle, stored, rows>>

\* let mut connection = pool.get().map_err(..)?: a connection is idle.
add_cat_pool_get(r) ==
    /\ kind[r] = "create" /\ pc[r] = "persisted"
    /\ \E c \in idle : PoolGetOk(r, c)
    /\ UNCHANGED <<kind, input, response, body, file_path, new_cat, stored,
                   rows, image_dir>>

add_cat_pool_get_err_ignored(r) ==
    /\ kind[r] = "create" /\ pc[r] = "persisted"
    /\ idle = {}
    /\ pc' = [pc EXCEPT ![r] = "acquired"]
    /\ hist' = [hist EXCEPT ![r].timedOut = TRUE]
    /\ UNCHANGED <<kind, input, connection, response, body, file_path,
                   new_cat, idle, stored, rows, image_dir>>

\* pool.get() gives Err after the wait: UserError::DBPoolGetError.
add_cat_pool_get_err(r) ==
    /\ kind[r] = "create" /\ pc[r] = "persisted"
    /\ idle = {}
    /\ Finish(r, "DBPoolGetError", "pool_timeout")
    /\ UNCHANGED <<kind, input, connection, body, file_path, new_cat, idle,
                   stored, rows, image_dir>>

\* let new_cat = NewCat { name: text_fields.get("name").ok_or_else(..)?,
\* image_path: ...strip_prefix('.').ok_or_else(..)? }; an early return
\* drops the connection.
add_cat_new_cat(r) ==
    /\ kind[r] = "create" /\ pc[r] = "acquired"
    /\ LET name == text_fields_get(input[r].texts, "name")
           path == strip_prefix(file_path[r])
       IN  IF name # <<>> /\ path # <<>>
           THEN /\ new_cat' = [new_cat EXCEPT
                                 ![r] = <<[name |-> name[1],
                                           image_path |-> path[1]]>>]
                /\ pc' = [pc EXCEPT ![r] = "built"]
                /\ UNCHANGED <<connection, idle, response, hist>>
           ELSE /\ Finish(r, "ValidationError",
                          IF name = <<>> THEN "no_name" ELSE "strip")
                /\ idle' = released(r)
                /\ connection' = [connection EXCEPT ![r] = NoConn]
                /\ UNCHANGED new_cat
    /\ UNCHANGED <<kind, input, body, file_path, stored, rows, image_dir>>

\* web::block(move || diesel::insert_into(cats).values(&new_cat)
\* .execute(&mut connection)).await and the two map_err.
add_cat_insert(r) ==
    /\ kind[r] = "create" /\ pc[r] = "built"
    /\ idle' = released(r)
    /\ connection' = [connection EXCEPT ![r] = NoConn]
    /\ pc' = [pc EXCEPT ![r] = "done"]
    /\ \E res \in {"blocking_error", "db_error", "ok"} :
          IF res = "blocking_error"
          THEN /\ response' = [response EXCEPT ![r] = "DBPoolGetError"]
               /\ hist' = [hist EXCEPT ![r].cause = res]
               /\ rows' = rows
          ELSE IF res = "db_error"
          THEN /\ response' = [response EXCEPT ![r] = "ValidationError"]
               /\ hist' = [hist EXCEPT ![r].cause = "insert_rejected",
                                       ![r].queries = @ + 1,
                                       ![r].insertTried = TRUE]
               /\ rows' = rows
          ELSE /\ response' = [response EXCEPT ![r] = "Created"]
               /\ hist' = [hist EXCEPT ![r].queries = @ + 1,
                                       ![r].insertTried = TRUE,
                                       ![r].row = TableSize + 1]
               /\ rows' = Inserted(new_cat[r][1])
    /\ UNCHANGED <<kind, input, body, file_path, new_cat, stored, image_dir>>

\* ------------------------------------------------------- specification
Next ==
    \E r \in Req :
        \/ RouteCats(r)
        \/ RouteCat(r)
        \/ RouteAddCat(r)
        \/ cats_pool_get(r)
        \/ cats_pool_get_err(r)
        \/ cats_load(r)
        \/ cat_validate(r)
        \/ cat_pool_get(r)
        \/ cat_pool_get_err(r)
        \/ cat_first(r)
        \/ add_cat_persist(r)
        \/ add_cat_pool_get(r)
        \/ add_cat_pool_get_err(r)
        \/ add_cat_new_cat(r)
        \/ add_cat_insert(r)

Spec == Init /\ [][Next]_vars

\* ============================================================== claims
Creates == {r \in Req : kind[r] = "create"}

Gets == {r \in Req : kind[r] = "get"}

Lists == {r \in Req : kind[r] = "list"}

Done(r) == pc[r] = "done"

\* The text field `name` is missing from the body of r.
NameMissing(r) == \A i \in 1..Len(input[r].texts) : input[r].texts[i].key # "name"

\* Some file of ./image has this name.
OnDisk(name) == \E f \in image_dir : f.name = name

\* The rows a query saw that had id n, when the table held `seen` new rows.
RowsAt(n, seen) ==
    IF n >= 1 /\ n <= stored THEN {StoredRow(n)}
    ELSE {rows[i] : i \in {j \in 1..seen : rows[j].id = n}}

\* The row request r inserted, as a set.
RowOf(r) == {rows[i] : i \in {j \in 1..Len(rows) : rows[j].id = hist[r].row}}

\* C1: a create request whose text field `name` is missing ends in
\* ValidationError (400) and at no point writes a file to the upload
\* directory, takes a connection from the pool or inserts a row.
C1_ValidationBeforeAcquisition ==
    \A r \in Creates :
        NameMissing(r) =>
            /\ hist[r].file = NoFile
            /\ ~hist[r].conn
            /\ hist[r].row = 0
            /\ Done(r) => response[r] = "ValidationError" /\ Status(r) = 400

\* C2 as stated: a get-by-id request with a non-integer or out-of-range
\* segment ends in ValidationError (400) with no pool acquisition and no
\* query; an id in [1,150] with no matching row ends in NotFoundError
\* (404); a matching row whose query succeeds is returned with 200.
C2_GetByIdOutcomes ==
    \A r \in Gets :
        LET p == cat_id(r)
            valid == p.ok /\ p.val >= RANGE_MIN /\ p.val <= RANGE_MAX
        IN  /\ ~valid => ~hist[r].conn /\ hist[r].queries = 0
            /\ Done(r) /\ ~valid =>
                   response[r] = "ValidationError" /\ Status(r) = 400
            /\ Done(r) /\ valid /\ FirstById(p.val) = {} =>
                   response[r] = "NotFoundError" /\ Status(r) = 404
            /\ Done(r) /\ valid /\ hist[r].queries = 1
                       /\ hist[r].cause # "db_error"
                       /\ RowsAt(p.val, hist[r].seen) # {} =>
                   /\ response[r] = "Ok" /\ Status(r) = 200
                   /\ body[r].rows = RowsAt(p.val, hist[r].seen)

\* C2 amended: as C2, but an id in [1,150] with no matching row ends in
\* NotFoundError (404) when the lookup itself ran (a connection was
\* acquired and the blocking worker ran the query without a store error);
\* a pool timeout ends in DBPoolGetError and a dispatch or store failure
\* in UnexpectedError, both 500.
C2_GetByIdAmended ==
    \A r \in Gets :
        LET p == cat_id(r)
            valid == p.ok /\ p.val >= RANGE_MIN /\ p.val <= RANGE_MAX
            ran == hist[r].queries = 1 /\ hist[r].cause # "db_error"
        IN  /\ ~valid => ~hist[r].conn /\ hist[r].queries = 0
            /\ Done(r) /\ ~valid =>
                   response[r] = "ValidationError" /\ Status(r) = 400
            /\ Done(r) /\ valid /\ ran /\ RowsAt(p.val, hist[r].seen) = {} =>
                   response[r] = "NotFoundError" /\ Status(r) = 404
            /\ Done(r) /\ valid /\ ran /\ RowsAt(p.val, hist[r].seen) # {} =>
                   /\ response[r] = "Ok" /\ Status(r) = 200
                   /\ body[r].rows = RowsAt(p.val, hist[r].seen)
            /\ Done(r) /\ valid /\ hist[r].timedOut =>
                   response[r] = "DBPoolGetError" /\ Status(r) = 500
            /\ Done(r) /\ valid /\ ~hist[r].timedOut /\ ~ran =>
                   response[r] = "UnexpectedError" /\ Status(r) = 500

\* C2 witness: one request was refused for id 151 without touching the
\* pool and another one, with a valid id, was answered 404 by the lookup.
C2_Witness ==
    \E r, q \in Gets :
        /\ Done(r) /\ input[r].segment = <<"1", "5", "1">>
        /\ response[r] = "ValidationError"
        /\ Done(q) /\ response[q] = "NotFoundError" /\ hist[q].queries = 1

\* C3: on each of the three endpoints a request whose pool acquisition
\* timed out terminates with a DBPoolGetError response of status 500.
C3_PoolTimeoutGives500 ==
    \A r \in Req :
        hist[r].timedOut /\ Done(r) =>
            response[r] = "DBPoolGetError" /\ Status(r) = 500

\* C4 as stated: a request that failed because pool acquisition timed out
\* took no connection, inserted no row and added no file to the upload
\* directory.
C4_NoPartialWork ==
    \A r \in Req :
        hist[r].timedOut =>
            ~hist[r].conn /\ hist[r].row = 0 /\ hist[r].file = NoFile

\* C4 amended: a request that failed because pool acquisition timed out
\* took no connection, ran no query and inserted no row; a list or
\* get-by-id request added no file, while a create request has persisted
\* its upload before the acquisition and that file stays in the upload
\* directory.
C4_NoPartialWorkAmended ==
    \A r \in Req :
        hist[r].timedOut =>
            /\ ~hist[r].conn /\ hist[r].queries = 0 /\ hist[r].row = 0
            /\ RowOf(r) = {}
            /\ Done(r) /\ connection[r] = NoConn
            /\ r \notin Creates => hist[r].file = NoFile
            /\ r \in Creates => hist[r].file # NoFile /\ OnDisk(hist[r].file)

\* C4 witness: a create request timed out on the pool after its upload
\* was persisted.
C4_Witness ==
    \E r \in Creates : hist[r].timedOut /\ Done(r) /\ OnDisk(hist[r].file)

\* C5: every persisted record has a non-empty name and an image_path
\* without the leading "." that refers to a file written to the upload
\* directory by the request that inserted the record.
C5_PersistedRecordsWellFormed ==
    \A i \in 1..Len(rows) :
        /\ rows[i].name # ""
        /\ rows[i].image_path # <<>> /\ rows[i].image_path[1] # "."
        /\ \E r \in Creates :
              /\ hist[r].row = rows[i].id
              /\ \E f \in image_dir :
                    /\ f.bytes = r
                    /\ persist_in(f.name) = <<".">> \o rows[i].image_path

\* The parts of C6 that do not depend on how much a list returns: every
\* row was inserted by exactly one create request, which is answered 201
\* once it finishes; a create answered 201 has exactly one row, holding the
\* submitted name and the persisted file's path without the leading ".";
\* a request answered with an error, and every list or get-by-id request,
\* has no row; rows keep their place and content in every later state.
RowsAreCreates ==
    /\ \A i \in 1..Len(rows) :
          /\ rows[i].id = stored + i
          /\ \E r \in Creates :
                /\ hist[r].row = rows[i].id
                /\ Done(r) /\ response[r] = "Created"
                /\ rows[i].name \in
                       {input[r].texts[j].value :
                           j \in {k \in 1..Len(input[r].texts) :
                                    input[r].texts[k].key = "name"}}
                /\ <<rows[i].name>> = text_fields_get(input[r].texts, "name")
                /\ file_path[r] = <<".">> \o rows[i].image_path
                /\ file_path[r] = persist_in(hist[r].file)
    /\ \A r \in Req :
          /\ response[r] = "Created" =>
                 r \in Creates /\ Status(r) = 201 /\ Cardinality(RowOf(r)) = 1
          /\ response[r] # "Created" => hist[r].row = 0 /\ RowOf(r) = {}
    /\ \A r, q \in Req : r # q /\ hist[r].row # 0 => hist[r].row # hist[q].row
    /\ Cardinality({r \in Req : response[r] = "Created"}) = Len(rows)

\* C6 as stated: RowsAreCreates, and a list that follows a create answered
\* 201 surfaces the created record.
C6_RoundTrip ==
    /\ RowsAreCreates
    /\ \A l \in Lists :
          Done(l) /\ response[l] = "Ok" =>
              \A i \in 1..hist[l].seen : rows[i] \in body[l].rows

\* C6 amended: RowsAreCreates, and a list that follows a create answered
\* 201 surfaces the created record whenever the table holds at most 100
\* rows; a list never returns more than 100 rows, in no fixed order, so in a
\* larger table the new record may be left out.
C6_RoundTripAmended ==
    /\ RowsAreCreates
    /\ \A l \in Lists :
          Done(l) /\ response[l] = "Ok" =>
              /\ Status(l) = 200
              /\ (body[l].hi - body[l].lo + 1) + Cardinality(body[l].rows)
                     <= LIST_LIMIT
              /\ body[l].rows \subseteq {rows[i] : i \in 1..hist[l].seen}
              /\ stored + hist[l].seen <= LIST_LIMIT =>
                     /\ \A i \in 1..hist[l].seen : rows[i] \in body[l].rows
                     /\ body[l].hi = stored

\* C6 witness: a create was answered 201 and a later list returned its row.
C6_Witness ==
    \E c \in Creates, l \in Lists :
        /\ response[c] = "Created" /\ response[l] = "Ok"
        /\ hist[l].seen >= 1
        /\ RowOf(c) # {} /\ RowOf(c) \subseteq body[l].rows

\* C7: create requests in flight together whose image parts carry the same
\* client file name each keep a file of their own in the upload directory,
\* and when they succeed their rows have distinct image_path values.
C7_NoFilenameCollision ==
    \A r, q \in Creates :
        /\ r # q
        /\ hist[r].file # NoFile /\ hist[q].file # NoFile
        /\ TakeImage(input[r].files) = TakeImage(input[q].files)
        => /\ \E f \in image_dir : f.bytes = r
           /\ \E f \in image_dir : f.bytes = q
           /\ \A x \in RowOf(r), y \in RowOf(q) : x.image_path # y.image_path

\* C8: on the create endpoint ValidationError (400) is returned only for a
\* missing or invalid input field; a persist failure, a blocking-worker
\* dispatch failure and a rejected insert each end in UnexpectedError (500).
C8_CreateErrorClasses ==
    \A r \in Creates :
        Done(r) =>
            /\ response[r] = "ValidationError" =>
                   hist[r].cause \in {"no_image", "no_name"}
            /\ hist[r].cause \in {"persist_failed", "blocking_error",
                                  "insert_rejected"} =>
                   response[r] = "UnexpectedError" /\ Status(r) = 500

\* C9: in every create request the file write completes before the insert
\* is attempted, no insert is attempted when the file write did not
\* succeed, and after a rejected insert the written file is still in the
\* upload directory while the request has no row.
C9_FileBeforeInsert ==
    \A r \in Creates :
        /\ hist[r].insertTried \/ pc[r] \in {"acquired", "built"} =>
               hist[r].file # NoFile /\ file_path[r] = persist_in(hist[r].file)
        /\ hist[r].file = NoFile =>
               ~hist[r].insertTried /\ hist[r].queries = 0 /\ RowOf(r) = {}
        /\ hist[r].cause \in {"no_image", "persist_failed"} =>
               Done(r) /\ hist[r].file = NoFile
        /\ hist[r].cause = "insert_rejected" =>
               /\ hist[r].insertTried
               /\ OnDisk(hist[r].file)
               /\ RowOf(r) = {}
               /\ Cardinality({q \in Req : response[q] = "Created"}) = Len(rows)

\* C9 witness: an insert was rejected after the upload had been persisted.
C9_Witness ==
    \E r \in Creates :
        /\ Done(r) /\ hist[r].cause = "insert_rejected"
        /\ OnDisk(hist[r].file)

Holding == {r \in Req : connection[r] # NoConn}

\* C10: the connections checked out never exceed the cap, every connection
\* is either idle or owned by exactly one request, a request owns one only
\* between its acquisition and the end of its single query, and once every
\* request has finished all connections are back in the pool.
C10_PoolDiscipline ==
    /\ Cardinality(Holding) <= max_size
    /\ \A r, q \in Holding : r # q => connection[r] # connection[q]
    /\ idle \cap {connection[r] : r \in Holding} = {}
    /\ idle \cup {connection[r] : r \in Holding} = Conns
    /\ \A r \in Holding :
          pc[r] \in {"acquired", "built"} /\ hist[r].conn /\ hist[r].queries = 0
    /\ \A r \in Req :
          /\ hist[r].queries <= 1
          /\ hist[r].queries = 1 => hist[r].conn /\ Done(r)
          /\ Done(r) => connection[r] = NoConn
    /\ (\A r \in Req : pc[r] \in {"idle", "done"}) => idle = Conns

\* C10 witness: every request has finished, one of them after failing
\* validation with a connection in hand, and the pool is full again.
C10_Witness ==
    /\ \A r \in Req : Done(r)
    /\ \E r \in Creates : hist[r].conn /\ hist[r].cause = "no_name"
    /\ \E r \in Req : hist[r].timedOut
    /\ idle = Conns

=============================================================================
